---- MODULE Spec2Model ----
(***************************************************************************)
(* A model of YOLOv3-Keras: the label codec of preprocess.py               *)
(* (bndbox_to_coords, coords_to_bndbox, preprocess_label, tensor_to_label),*)
(* the configuration parser parse_cfg of yolo.py and the darknet weight    *)
(* loader load_pretrained_darknet of yolo.py.                              *)
(*                                                                         *)
(* Python floats are modelled as exact rationals <<n, d>> (d > 0, lowest   *)
(* terms); numpy arrays as [shape, flat] in C order.                       *)
(***************************************************************************)
EXTENDS Integers, Sequences, FiniteSets, TLC

VARIABLES
    \* preprocess.py
    label,          \* the annotation handed to preprocess_label
    grid_s,         \* the grid size s
    label_tensor,   \* the tensor preprocess_label builds
    object_i,       \* number of label.objects the for-loop has handled
    label_pc,       \* "encode" | "encoded" | "decoded" | "IndexError"
    resized_label,  \* what tensor_to_label returned
    \* yolo.py, parse_cfg
    cfg_file,       \* the lines of the configuration file
    line_no,        \* number of lines the for-loop has handled
    cfg,            \* the list of (section_name, section) pairs
    current_section,\* 0 while unbound, else the place in cfg of the dict it names
    cfg_pc,         \* "scan" | "returned" | "ValueError" | "UnboundLocalError"
    \* yolo.py, load_pretrained_darknet
    load_cfg,       \* the block list parse_cfg returned for cfg_file
    model,          \* the Keras model: its layers by name
    wf_words,       \* the weights file, as its whole 4-byte words
    wf_len,         \* the length of the weights file in bytes
    wf_pos,         \* the position of wf, in bytes
    block_index,    \* the loop variable of the weight loop
    load_pc,        \* "create" | "header" | "blocks" | "returned" | an exception
    short_read      \* some np.fromfile asked for more bytes than were left

label_vars == <<label, grid_s, label_tensor, object_i, label_pc, resized_label>>
cfg_vars == <<cfg_file, line_no, cfg, current_section, cfg_pc>>

load_vars == <<load_cfg, model, wf_words, wf_len, wf_pos, block_index, load_pc, short_read>>

vars == <<label_vars, cfg_vars, load_vars>>

-----------------------------------------------------------------------------
(* Rational arithmetic standing for Python's float arithmetic.             *)

RECURSIVE GCD(_, _)
GCD(a, b) == IF b = 0 THEN a ELSE GCD(b, a % b)

Abs(n) == IF n < 0 THEN -n ELSE n

\* n/d in lowest terms with a positive denominator.
Rat(n, d) ==
    LET g == GCD(Abs(n), Abs(d))
        sgn == IF d < 0 THEN -1 ELSE 1
    IN  <<sgn * (n \div g), sgn * (d \div g)>>

RAdd(a, b) == Rat(a[1] * b[2] + b[1] * a[2], a[2] * b[2])
RSub(a, b) == Rat(a[1] * b[2] - b[1] * a[2], a[2] * b[2])
RMul(a, b) == Rat(a[1] * b[1], a[2] * b[2])
RDiv(a, b) == Rat(a[1] * b[2], a[2] * b[1])
RLess(a, b) == a[1] * b[2] < b[1] * a[2]
RLeq(a, b) == a[1] * b[2] <= b[1] * a[2]
RInt(n) == <<n, 1>>
RZero == RInt(0)
ROne == RInt(1)

\* Python int(x): truncation toward zero.
PyInt(a) == IF a[1] >= 0 THEN a[1] \div a[2] ELSE -((-a[1]) \div a[2])

\* Python round(x): to the nearest integer, a tie to the even one.
PyRound(a) ==
    LET q == a[1] \div a[2]
        r == a[1] - q * a[2]
    IN  IF 2 * r < a[2] THEN q
        ELSE IF 2 * r > a[2] THEN q + 1
        ELSE IF q % 2 = 0 THEN q ELSE q + 1

-----------------------------------------------------------------------------
(* preprocess.py: the class table.                                         *)

ClassTable ==
    << <<"aeroplane", 0>>, <<"bicycle", 1>>, <<"bird", 2>>, <<"boat", 3>>,
       <<"bottle", 4>>, <<"bus", 5>>, <<"car", 6>>, <<"cat", 7>>,
       <<"chair", 8>>, <<"cow", 9>>, <<"diningtable", 10>>, <<"dog", 11>>,
       <<"horse", 12>>, <<"motorbike", 13>>, <<"person", 14>>,
       <<"pottedplant", 15>>, <<"sheep", 16>>, <<"sofa", 17>>,
       <<"train", 18>>, <<"tvmonitor", 19>> >>

CLASS_NAME_TO_INDEX ==
    [name \in {ClassTable[k][1] : k \in DOMAIN ClassTable} |->
        ClassTable[CHOOSE k \in DOMAIN ClassTable : ClassTable[k][1] = name][2]]

\* list(CLASS_NAME_TO_INDEX.keys()), indexed from 0.
INDEX_TO_CLASS_NAME ==
    [i \in 0..(Len(ClassTable) - 1) |-> ClassTable[i + 1][1]]

-----------------------------------------------------------------------------
(* preprocess.py: the grid codec.                                          *)

bndbox_to_coords(bndbox, img_width, img_height, s) ==
    LET xmin == bndbox[1]
        xmax == bndbox[2]
        ymin == bndbox[3]
        ymax == bndbox[4]
        \* absolute position in grid units
        xa == RMul(RDiv(RDiv(RAdd(xmin, xmax), RInt(2)), RInt(img_width)), RInt(s))
        ya == RMul(RDiv(RDiv(RAdd(ymin, ymax), RInt(2)), RInt(img_height)), RInt(s))
        \* size in grid units
        w == RMul(RDiv(RSub(xmax, xmin), RInt(img_width)), RInt(s))
        h == RMul(RDiv(RSub(ymax, ymin), RInt(img_height)), RInt(s))
        cell_x == PyInt(xa)
        cell_y == PyInt(ya)
    IN  [x |-> RSub(xa, RInt(cell_x)), y |-> RSub(ya, RInt(cell_y)),
         w |-> w, h |-> h, cell_x |-> cell_x, cell_y |-> cell_y]

\* The mutant of coords_to_bndbox: the box in the order (xmin, ymin, xmax, ymax).
coords_to_bndbox_xyxy(x, y, w, h, cell_x, cell_y, img_width, img_height, s) ==
    LET xp == RDiv(RMul(RAdd(x, RInt(cell_x)), RInt(img_width)), RInt(s))
        yp == RDiv(RMul(RAdd(y, RInt(cell_y)), RInt(img_height)), RInt(s))
        wp == RDiv(RMul(w, RInt(img_width)), RInt(s))
        hp == RDiv(RMul(h, RInt(img_height)), RInt(s))
    IN  << PyRound(RSub(xp, RDiv(wp, RInt(2)))),
           PyRound(RSub(yp, RDiv(hp, RInt(2)))),
           PyRound(RAdd(xp, RDiv(wp, RInt(2)))),
           PyRound(RAdd(yp, RDiv(hp, RInt(2)))) >>

coords_to_bndbox(x, y, w, h, cell_x, cell_y, img_width, img_height, s) ==
    LET xp == RDiv(RMul(RAdd(x, RInt(cell_x)), RInt(img_width)), RInt(s))
        yp == RDiv(RMul(RAdd(y, RInt(cell_y)), RInt(img_height)), RInt(s))
        wp == RDiv(RMul(w, RInt(img_width)), RInt(s))
        hp == RDiv(RMul(h, RInt(img_height)), RInt(s))
    IN  << PyRound(RSub(xp, RDiv(wp, RInt(2)))),
           PyRound(RAdd(xp, RDiv(wp, RInt(2)))),
           PyRound(RSub(yp, RDiv(hp, RInt(2)))),
           PyRound(RAdd(yp, RDiv(hp, RInt(2)))) >>

-----------------------------------------------------------------------------
(* preprocess.py: the label codec.                                         *)

\* preprocess_label's defaults for b and c.
BoxesPerCell == 2
NumClasses == 20

\* np.zeros((s, s, b * 5 + c))
ZeroTensor(s, b, c) ==
    [cy \in 0..(s - 1) |-> [cx \in 0..(s - 1) |-> [ch \in 0..(b * 5 + c - 1) |-> RZero]]]

\* numpy's index on an axis of length n: a negative index counts from the
\* end, anything outside -n..n-1 is an IndexError.
IndexInBounds(i, n) == i >= -n /\ i < n
NpIndex(i, n) == IF i < 0 THEN i + n ELSE i

\* The mutant of WriteObject: a later object overwrites the cell.
WriteObjectOverwrite(tensor, object, img_width, img_height, s) ==
    LET class_index == CLASS_NAME_TO_INDEX[object.name]
        c == bndbox_to_coords(object.bndbox, img_width, img_height, s)
        cy == NpIndex(c.cell_y, s)
        cx == NpIndex(c.cell_x, s)
    IN  [tensor EXCEPT ![cy][cx] =
            [ch \in DOMAIN @ |->
                IF ch = 0 THEN ROne
                ELSE IF ch = 1 THEN c.x
                ELSE IF ch = 2 THEN c.y
                ELSE IF ch = 3 THEN c.w
                ELSE IF ch = 4 THEN c.h
                ELSE IF ch = 10 + class_index THEN ROne
                ELSE @[ch]]]

\* The body of preprocess_label's loop once the cell is known to exist:
\* the first object to reach a cell claims it.
WriteObject(tensor, object, img_width, img_height, s) ==
    LET class_index == CLASS_NAME_TO_INDEX[object.name]
        c == bndbox_to_coords(object.bndbox, img_width, img_height, s)
        cy == NpIndex(c.cell_y, s)
        cx == NpIndex(c.cell_x, s)
    IN  IF tensor[cy][cx][0] = RZero
        THEN [tensor EXCEPT ![cy][cx] =
                [ch \in DOMAIN @ |->
                    IF ch = 0 THEN ROne
                    ELSE IF ch = 1 THEN c.x
                    ELSE IF ch = 2 THEN c.y
                    ELSE IF ch = 3 THEN c.w
                    ELSE IF ch = 4 THEN c.h
                    ELSE IF ch = 10 + class_index THEN ROne
                    ELSE @[ch]]]
        ELSE tensor

\* np.argmax over channels 10.. of a cell: the first index of the maximum.
ArgMaxClass(cell) ==
    LET chans == {ch \in DOMAIN cell : ch >= 10}
    IN  (CHOOSE ch \in chans :
            /\ \A o \in chans : RLeq(cell[o], cell[ch])
            /\ \A o \in chans : o < ch => RLess(cell[o], cell[ch])) - 10

\* The objects tensor_to_label collects from the cells k, k + 1, ... in
\* row-major order (cell_y outer, cell_x inner).
RECURSIVE DecodeCells(_, _, _, _)
DecodeCells(tensor, k, img_width, img_height) ==
    LET s == Cardinality(DOMAIN tensor)
        cell_y == k \div s
        cell_x == k % s
        cell == tensor[cell_y][cell_x]
    IN  IF k >= s * s THEN <<>>
        ELSE IF cell[0] = ROne
        THEN << [name |-> INDEX_TO_CLASS_NAME[ArgMaxClass(cell)],
                 bndbox |-> coords_to_bndbox(cell[1], cell[2], cell[3], cell[4],
                                             cell_x, cell_y, img_width, img_height, s)] >>
             \o DecodeCells(tensor, k + 1, img_width, img_height)
        ELSE DecodeCells(tensor, k + 1, img_width, img_height)

tensor_to_label(tensor, img_width, img_height, img_depth) ==
    [image_size |-> [depth |-> img_depth, width |-> img_width, height |-> img_height],
     objects |-> DecodeCells(tensor, 0, img_width, img_height)]

-----------------------------------------------------------------------------
(* The inputs of the label codec.                                          *)

\* parse_cfg is not running.
CfgIdle ==
    /\ cfg_file = <<>>
    /\ line_no = 0
    /\ cfg = <<>>
    /\ current_section = 0
    /\ cfg_pc = "idle"

\* load_pretrained_darknet is not running.
LoadIdle ==
    /\ load_cfg = <<>>
    /\ model = <<>>
    /\ wf_words = <<>>
    /\ wf_len = 0
    /\ wf_pos = 0
    /\ block_index = 0
    /\ load_pc = "idle"
    /\ short_read = FALSE

MaxObjects == 2

ImageSizes == {[width |-> 4, height |-> 3, depth |-> 3]}
GridSizes == {2, 3}
ObjectNames == {"aeroplane", "tvmonitor"}

\* Pixel coordinates inside the image: its edges, and on the x axis a
\* position half a pixel off the grid of pixels.
XCoords(size) == {RInt(0), Rat(3, 2), RInt(size.width)}
YCoords(size) == {RInt(0), RInt(size.height)}

Boxes(size) ==
    {<<xmin, xmax, ymin, ymax>> :
        xmin \in XCoords(size), xmax \in XCoords(size),
        ymin \in YCoords(size), ymax \in YCoords(size)}

InsideImage(bndbox, size) ==
    /\ RLeq(RZero, bndbox[1]) /\ RLeq(bndbox[1], bndbox[2])
    /\ RLeq(bndbox[2], RInt(size.width))
    /\ RLeq(RZero, bndbox[3]) /\ RLeq(bndbox[3], bndbox[4])
    /\ RLeq(bndbox[4], RInt(size.height))

Objects(size) ==
    {[name |-> n, bndbox |-> bb] :
        n \in ObjectNames, bb \in {b \in Boxes(size) : InsideImage(b, size)}}

ObjectLists(size) ==
    UNION {[1..n -> Objects(size)] : n \in 0..MaxObjects}

InitLabel ==
    /\ \E size \in ImageSizes :
         \E objs \in ObjectLists(size) :
            label = [image_size |-> size, objects |-> objs]
    /\ grid_s \in GridSizes
    /\ label_tensor = ZeroTensor(grid_s, BoxesPerCell, NumClasses)
    /\ object_i = 0
    /\ label_pc = "encode"
    /\ resized_label = "none"
    /\ CfgIdle
    /\ LoadIdle

\* One iteration of `for object in label['objects']`.
EncodeObject ==
    /\ label_pc = "encode"
    /\ object_i < Len(label.objects)
    /\ LET object == label.objects[object_i + 1]
           size == label.image_size
           c == bndbox_to_coords(object.bndbox, size.width, size.height, grid_s)
       IN  IF IndexInBounds(c.cell_y, grid_s) /\ IndexInBounds(c.cell_x, grid_s)
           THEN /\ label_tensor' = WriteObject(label_tensor, object,
                                               size.width, size.height, grid_s)
                /\ label_pc' = "encode"
           ELSE /\ label_tensor' = label_tensor
                /\ label_pc' = "IndexError"
    /\ object_i' = object_i + 1
    /\ UNCHANGED <<label, grid_s, resized_label, cfg_vars, load_vars>>

\* The loop is over: return label_tensor.
EncodeReturn ==
    /\ label_pc = "encode"
    /\ object_i = Len(label.objects)
    /\ label_pc' = "encoded"
    /\ UNCHANGED <<label, grid_s, label_tensor, object_i, resized_label, cfg_vars, load_vars>>

\* tensor_to_label on the tensor, with the annotation's image size.
Decode ==
    /\ label_pc = "encoded"
    /\ resized_label' = tensor_to_label(label_tensor, label.image_size.width,
                                        label.image_size.height, label.image_size.depth)
    /\ label_pc' = "decoded"
    /\ UNCHANGED <<label, grid_s, label_tensor, object_i, cfg_vars, load_vars>>

NextLabel == EncodeObject \/ EncodeReturn \/ Decode

SpecLabel == InitLabel /\ [][NextLabel]_vars

-----------------------------------------------------------------------------
(* Properties of the label codec.                                          *)

Coords(i) ==
    bndbox_to_coords(label.objects[i].bndbox, label.image_size.width,
                     label.image_size.height, grid_s)

\* The objects the loop has written or skipped (not the one it failed on).
Handled ==
    IF label_pc = "IndexError" THEN 1..(object_i - 1) ELSE 1..object_i

\* The coordinates bndbox_to_coords gives each of the objects.
CoordsOf(objs) == [i \in objs |-> Coords(i)]

\* The place of a cell in row-major order.
RowMajor(cell) == cell[1] * grid_s + cell[2]

\* Two boxes agree to within one pixel, coordinate by coordinate; `out' holds
\* integers, `orig' rationals.
WithinOnePixel(out, orig) ==
    \A k \in 1..4 :
        /\ RLeq(RSub(RInt(out[k]), orig[k]), ROne)
        /\ RLeq(RSub(orig[k], RInt(out[k])), ROne)

\* C1: when several objects map to one grid cell only the first in input
\* order is written: the cell holds its x, y, w, h and its class bit and
\* those only, the confidence is exactly 1, and tensor_to_label returns
\* that first object, and nothing else, for the cell.
C1_FirstObjectWins ==
    \A coords \in {CoordsOf(Handled)} :
    \* the first object of every cell that objects map to
    \A firsts \in {{i \in Handled : \A j \in Handled : j < i =>
                        \/ coords[j].cell_y # coords[i].cell_y
                        \/ coords[j].cell_x # coords[i].cell_x}} :
        /\ \A first \in firsts :
            LET c == coords[first]
                t == label_tensor[c.cell_y][c.cell_x]
                bit == 10 + CLASS_NAME_TO_INDEX[label.objects[first].name]
            IN  /\ t[0] = ROne
                /\ <<t[1], t[2], t[3], t[4]>> = <<c.x, c.y, c.w, c.h>>
                /\ {ch \in 10..(BoxesPerCell * 5 + NumClasses - 1) : t[ch] # RZero} = {bit}
                /\ t[bit] = ROne
        /\ label_pc = "decoded" =>
            /\ Len(resized_label.objects) = Cardinality(firsts)
            /\ \A first \in firsts :
                LET rank == Cardinality({o \in firsts :
                                RowMajor(<<coords[o].cell_y, coords[o].cell_x>>)
                                  <= RowMajor(<<coords[first].cell_y, coords[first].cell_x>>)})
                    out == resized_label.objects[rank]
                IN  /\ out.name = label.objects[first].name
                    /\ WithinOnePixel(out.bndbox, label.objects[first].bndbox)

FarApart(a, b) ==
    \E k \in 1..4 : RLess(RInt(2), RSub(a[k], b[k])) \/ RLess(RInt(2), RSub(b[k], a[k]))

\* Two objects of different names and far apart boxes share a cell, and the
\* tensor has been decoded.
C1_Witness ==
    /\ label_pc = "decoded"
    /\ \E i, j \in Handled :
        /\ i < j
        /\ Coords(i).cell_y = Coords(j).cell_y
        /\ Coords(i).cell_x = Coords(j).cell_x
        /\ label.objects[i].name # label.objects[j].name
        /\ FarApart(label.objects[i].bndbox, label.objects[j].bndbox)

\* Every object falls in a cell of the grid, no two in the same.
DistinctCells ==
    \A coords \in {CoordsOf(1..Len(label.objects))} :
        /\ \A i \in DOMAIN coords :
            coords[i].cell_y \in 0..(grid_s - 1) /\ coords[i].cell_x \in 0..(grid_s - 1)
        /\ \A i, j \in DOMAIN coords :
            i # j => \/ coords[i].cell_y # coords[j].cell_y
                     \/ coords[i].cell_x # coords[j].cell_x

SameObject(out, orig) ==
    out.name = orig.name /\ WithinOnePixel(out.bndbox, orig.bndbox)

\* C2: an annotation whose objects fall in pairwise distinct grid cells
\* comes back from tensor_to_label(preprocess_label(a)) with the same
\* objects, each coordinate within one pixel and in the order (xmin, xmax,
\* ymin, ymax), and with the same image size.
C2_RoundTrip ==
    (label_pc = "decoded" /\ DistinctCells) =>
        /\ resized_label.image_size = label.image_size
        /\ Len(resized_label.objects) = Len(label.objects)
        /\ \A i \in 1..Len(label.objects) :
            \E j \in 1..Len(resized_label.objects) :
                SameObject(resized_label.objects[j], label.objects[i])
        /\ \A j \in 1..Len(resized_label.objects) :
            \E i \in 1..Len(label.objects) :
                SameObject(resized_label.objects[j], label.objects[i])

\* Two objects in different cells, one of them with a half-pixel coordinate
\* that the decoder rounds, have been through the round trip.
C2_Witness ==
    /\ label_pc = "decoded"
    /\ DistinctCells
    /\ Len(label.objects) = 2
    /\ label.objects[1].name # label.objects[2].name
    /\ \E k \in 1..4 : label.objects[1].bndbox[k][2] = 2
    /\ FarApart(label.objects[1].bndbox, label.objects[2].bndbox)

\* floor of a rational.
RFloor(a) == a[1] \div a[2]

\* C7: for a box inside the image bndbox_to_coords returns the floor of the
\* centre in grid units as the cell, both cell indices in [0, s) and both
\* offsets in [0, 1), so preprocess_label writes into a cell of the grid.
C7_CellInGrid ==
    /\ label_pc # "IndexError"
    /\ \A i \in 1..object_i :
        LET bb == label.objects[i].bndbox
            size == label.image_size
            c == Coords(i)
        IN  InsideImage(bb, size) =>
            /\ c.cell_x = RFloor(Rat((bb[1][1] * bb[2][2] + bb[2][1] * bb[1][2]) * grid_s,
                                     bb[1][2] * bb[2][2] * 2 * size.width))
            /\ c.cell_y = RFloor(Rat((bb[3][1] * bb[4][2] + bb[4][1] * bb[3][2]) * grid_s,
                                     bb[3][2] * bb[4][2] * 2 * size.height))
            /\ c.cell_x \in 0..(grid_s - 1)
            /\ c.cell_y \in 0..(grid_s - 1)
            /\ RLeq(RZero, c.x) /\ RLess(c.x, ROne)
            /\ RLeq(RZero, c.y) /\ RLess(c.y, ROne)

-----------------------------------------------------------------------------
(* yolo.py: parse_cfg.  A line is a sequence of one-character strings.     *)

IsSpace(ch) == ch \in {" ", "\t", "\n"}

RECURSIVE LStrip(_)
LStrip(str) ==
    IF str # <<>> /\ IsSpace(Head(str)) THEN LStrip(Tail(str)) ELSE str

RECURSIVE RStrip(_)
RStrip(str) ==
    IF str # <<>> /\ IsSpace(str[Len(str)])
    THEN RStrip(SubSeq(str, 1, Len(str) - 1))
    ELSE str

\* str.strip()
PyStrip(str) == RStrip(LStrip(str))

\* str.startswith(ch) for a one-character prefix.
StartsWith(str, ch) == str # <<>> /\ Head(str) = ch

\* str.split(sep) for a one-character separator: every occurrence splits.
RECURSIVE PySplit(_, _)
PySplit(str, sep) ==
    IF \A i \in DOMAIN str : str[i] # sep
    THEN <<str>>
    ELSE LET i == CHOOSE k \in DOMAIN str :
                    str[k] = sep /\ \A o \in 1..(k - 1) : str[o] # sep
         IN  <<SubSeq(str, 1, i - 1)>> \o PySplit(SubSeq(str, i + 1, Len(str)), sep)

Digits == <<"0", "1", "2", "3", "4", "5", "6", "7", "8", "9">>
IsDigit(ch) == \E k \in DOMAIN Digits : Digits[k] = ch
DigitValue(ch) == (CHOOSE k \in DOMAIN Digits : Digits[k] = ch) - 1

Unsigned(str) ==
    IF str # <<>> /\ Head(str) \in {"+", "-"} THEN Tail(str) ELSE str
Sign(str) == IF str # <<>> /\ Head(str) = "-" THEN -1 ELSE 1

RECURSIVE DigitsValue(_)
DigitsValue(str) ==
    IF str = <<>> THEN 0
    ELSE 10 * DigitsValue(SubSeq(str, 1, Len(str) - 1)) + DigitValue(str[Len(str)])

RECURSIVE Pow10(_)
Pow10(n) == IF n = 0 THEN 1 ELSE 10 * Pow10(n - 1)

\* int(value) succeeds: an optional sign and decimal digits.
IsIntLiteral(str) ==
    /\ Unsigned(str) # <<>>
    /\ \A i \in DOMAIN Unsigned(str) : IsDigit(Unsigned(str)[i])

\* float(value) succeeds: an optional sign, decimal digits and at most one
\* point (exponents, inf and nan are not among the inputs).
IsFloatLiteral(str) ==
    LET body == Unsigned(str)
    IN  /\ \E i \in DOMAIN body : IsDigit(body[i])
        /\ \A i \in DOMAIN body : IsDigit(body[i]) \/ body[i] = "."
        /\ Cardinality({i \in DOMAIN body : body[i] = "."}) <= 1

FloatValue(str) ==
    LET body == Unsigned(str)
        parts == PySplit(body, ".")
        frac == IF Len(parts) = 2 THEN parts[2] ELSE <<>>
    IN  Rat(Sign(str) * (DigitsValue(parts[1]) * Pow10(Len(frac)) + DigitsValue(frac)),
            Pow10(Len(frac)))

\* The coercion of one value token: int, else float, else the string.
ParseValue(str) ==
    IF IsIntLiteral(str)
    THEN [type |-> "int", value |-> Sign(str) * DigitsValue(Unsigned(str))]
    ELSE IF IsFloatLiteral(str)
    THEN [type |-> "float", value |-> FloatValue(str)]
    ELSE [type |-> "str", value |-> str]

\* The right-hand side of a key/value line: split on commas, strip,
\* coerce; a single value is unwrapped from its list.
ParseValues(str) ==
    LET tokens == PySplit(str, ",")
        values == [i \in DOMAIN tokens |-> ParseValue(PyStrip(tokens[i]))]
    IN  IF Len(values) = 1 THEN values[1] ELSE values

\* The mutant of SplitKeyValue: line.split('=', 1).
SplitKeyValueOnce(line) ==
    IF \A i \in DOMAIN line : line[i] # "="
    THEN <<line>>
    ELSE LET i == CHOOSE k \in DOMAIN line :
                    line[k] = "=" /\ \A o \in 1..(k - 1) : line[o] # "="
         IN  <<SubSeq(line, 1, i - 1), SubSeq(line, i + 1, Len(line))>>

\* [s.strip() for s in line.split('=')]
SplitKeyValue(line) ==
    LET parts == PySplit(line, "=")
    IN  [i \in DOMAIN parts |-> PyStrip(parts[i])]

\* line[1:-1]
SectionName(line) == SubSeq(line, 2, Len(line) - 1)

\* section[key] = values on a dict held as a function.
DictSet(section, key, values) ==
    [k \in DOMAIN section \cup {key} |-> IF k = key THEN values ELSE section[k]]

EmptyDict == [k \in {} |-> 0]

MaxLines == 3

Lines ==
    { <<>>,
      <<" ", "#", "=", "=">>,
      <<"[", "n", "]">>,
      <<" ", "[", "c", "]", " ">>,
      <<"[", "=", "=">>,
      <<"k", "=", "1">>,
      <<"j", " ", "=", " ", "2", ".", "5", ",", "x">>,
      <<"k">>,
      <<"k", "=", "1", "=", "2">> }

LabelIdle ==
    /\ label = "none"
    /\ grid_s = 0
    /\ label_tensor = <<>>
    /\ object_i = 0
    /\ label_pc = "idle"
    /\ resized_label = "none"

InitCfg ==
    /\ cfg_file \in UNION {[1..n -> Lines] : n \in 0..MaxLines}
    /\ line_no = 0
    /\ cfg = <<>>
    /\ current_section = 0
    /\ cfg_pc = "scan"
    /\ LabelIdle
    /\ LoadIdle

CurrentLine == PyStrip(cfg_file[line_no + 1])

\* An empty line or a comment: continue.
SkipLine ==
    /\ cfg_pc = "scan"
    /\ line_no < Len(cfg_file)
    /\ CurrentLine = <<>> \/ StartsWith(CurrentLine, "#")
    /\ line_no' = line_no + 1
    /\ UNCHANGED <<cfg_file, cfg, current_section, cfg_pc, label_vars, load_vars>>

\* The start of a new section.
OpenSection ==
    /\ cfg_pc = "scan"
    /\ line_no < Len(cfg_file)
    /\ ~(CurrentLine = <<>> \/ StartsWith(CurrentLine, "#"))
    /\ StartsWith(CurrentLine, "[")
    /\ cfg' = Append(cfg, <<SectionName(CurrentLine), EmptyDict>>)
    /\ current_section' = Len(cfg) + 1
    /\ line_no' = line_no + 1
    /\ UNCHANGED <<cfg_file, cfg_pc, label_vars, load_vars>>

\* A key/value line: unpacking the split raises ValueError unless it has
\* two parts; storing into current_section raises UnboundLocalError while
\* no section has been opened.
KeyValue ==
    /\ cfg_pc = "scan"
    /\ line_no < Len(cfg_file)
    /\ ~(CurrentLine = <<>> \/ StartsWith(CurrentLine, "#"))
    /\ ~StartsWith(CurrentLine, "[")
    /\ LET parts == SplitKeyValue(CurrentLine)
       IN  IF Len(parts) # 2
           THEN /\ cfg_pc' = "ValueError"
                /\ UNCHANGED cfg
           ELSE IF current_section = 0
           THEN /\ cfg_pc' = "UnboundLocalError"
                /\ UNCHANGED cfg
           ELSE /\ cfg_pc' = "scan"
                /\ cfg' = [cfg EXCEPT ![current_section][2] =
                              DictSet(@, parts[1], ParseValues(parts[2]))]
    /\ line_no' = line_no + 1
    /\ UNCHANGED <<cfg_file, current_section, label_vars, load_vars>>

\* The file is read: return cfg.
ParseReturn ==
    /\ cfg_pc = "scan"
    /\ line_no = Len(cfg_file)
    /\ cfg_pc' = "returned"
    /\ UNCHANGED <<cfg_file, line_no, cfg, current_section, label_vars, load_vars>>

NextCfg == SkipLine \/ OpenSection \/ KeyValue \/ ParseReturn

SpecCfg == InitCfg /\ [][NextCfg]_vars

-----------------------------------------------------------------------------
(* Properties of parse_cfg.                                                *)

CountChar(str, ch) == Cardinality({i \in DOMAIN str : str[i] = ch})

IsIgnoredLine(k) ==
    PyStrip(cfg_file[k]) = <<>> \/ Head(PyStrip(cfg_file[k])) = "#"
IsHeaderLine(k) == ~IsIgnoredLine(k) /\ Head(PyStrip(cfg_file[k])) = "["
IsKeyValueLine(k) == ~IsIgnoredLine(k) /\ ~IsHeaderLine(k)

\* A line the claim calls fatal.
IsBadLine(k) ==
    /\ IsKeyValueLine(k)
    /\ \/ CountChar(cfg_file[k], "=") # 1
       \/ \A h \in 1..(k - 1) : ~IsHeaderLine(h)

HeaderLines == {k \in DOMAIN cfg_file : IsHeaderLine(k)}

\* C8: parse_cfg fails exactly when the file holds a key/value line without
\* exactly one `=' or a key/value line before any block header, and
\* otherwise returns one block per header line, in file order.
C8_ParseOutcome ==
    /\ cfg_pc \in {"ValueError", "UnboundLocalError"} =>
            \E k \in DOMAIN cfg_file : IsBadLine(k)
    /\ cfg_pc = "returned" =>
        /\ \A k \in DOMAIN cfg_file : ~IsBadLine(k)
        /\ Len(cfg) = Cardinality(HeaderLines)
        /\ \A k \in HeaderLines :
            cfg[Cardinality({h \in HeaderLines : h <= k})][1]
                = SectionName(PyStrip(cfg_file[k]))

\* A line with two `=' ended the parse after a block had been opened.
C8_Witness ==
    /\ cfg_pc = "ValueError"
    /\ Len(cfg) >= 1
    /\ CountChar(cfg_file[line_no], "=") = 2

-----------------------------------------------------------------------------
(* yolo.py: create_model_from_cfg, as far as the weight loader reads it.   *)
(* A block of load_cfg is <<name, section>>, the section a function from   *)
(* its keys; a layer name such as conv_3 is <<"conv", 3>>.  Of a layer's   *)
(* shape only the rank and the channels are kept.                          *)

Min(a, b) == IF a < b THEN a ELSE b

\* try: section['batch_normalize'] == 1, except: False
BatchNormalize(section) ==
    IF "batch_normalize" \in DOMAIN section
    THEN section["batch_normalize"] = 1
    ELSE FALSE

\* The output of the layers of cfg[0 .. n-1]: its rank and its channels
\* (rank 0: no layer yet).
RECURSIVE OutputShape(_, _)
OutputShape(blocks, n) ==
    IF n = 0 THEN [rank |-> 0, channels |-> 0]
    ELSE LET name == blocks[n][1]
             section == blocks[n][2]
             before == OutputShape(blocks, n - 1)
         IN  IF name = "net" THEN [rank |-> 4, channels |-> section["channels"]]
             ELSE IF name \in {"convolutional", "local"}
             THEN [rank |-> before.rank, channels |-> section["filters"]]
             ELSE IF name = "connected"
             THEN [rank |-> 2, channels |-> section["output"]]
             ELSE before

\* Keras refuses a 2D convolution, pooling or locally connected layer on an
\* input that is not 4D.
Buildable(blocks) ==
    \A n \in DOMAIN blocks :
        blocks[n][1] \in {"convolutional", "local", "maxpool"} =>
            OutputShape(blocks, n - 1).rank = 4

\* The layers create_model_from_cfg adds for the block at block index bi that
\* the loader looks up: the convolution and its batch normalization.
BlockLayers(blocks, bi) ==
    LET name == blocks[bi + 1][1]
        section == blocks[bi + 1][2]
        batch_normalize == BatchNormalize(section)
        use_bias == ~batch_normalize
    IN  IF name = "convolutional"
        THEN {[layer_name |-> <<"conv", bi>>,
               filters |-> section["filters"],
               kernel_size |-> <<section["size"], section["size"]>>,
               input_channels |-> OutputShape(blocks, bi).channels,
               use_bias |-> use_bias,
               weights |-> <<>>]}
             \cup (IF batch_normalize
                   THEN {[layer_name |-> <<"batchnorm", bi>>,
                          filters |-> section["filters"],
                          weights |-> <<>>]}
                   ELSE {})
        ELSE {}

create_model_from_cfg(blocks) ==
    LET layers == UNION {BlockLayers(blocks, bi) : bi \in 0..(Len(blocks) - 1)}
    IN  [n \in {l.layer_name : l \in layers} |->
            CHOOSE l \in layers : l.layer_name = n]

-----------------------------------------------------------------------------
(* numpy, as load_pretrained_darknet uses it.                              *)

\* np.fromfile(wf, dtype, count) at position pos, for items of itemsize
\* bytes: the whole items that are left, at most count of them; no error
\* when fewer are left.
FromFileCount(pos, itemsize, count) == Min(count, (wf_len - pos) \div itemsize)
FromFilePos(pos, itemsize, count) == Min(pos + count * itemsize, wf_len)
FromFileShort(pos, itemsize, count) == pos + count * itemsize > wf_len

\* The 4-byte items np.fromfile returns.
FromFile(pos, count) ==
    SubSeq(wf_words, pos \div 4 + 1, pos \div 4 + FromFileCount(pos, 4, count))

Prod(shape) == shape[1] * shape[2] * shape[3] * shape[4]

\* The flat index of a 4D index in C order, and back.
Ravel(idx, shape) ==
    ((idx[1] * shape[2] + idx[2]) * shape[3] + idx[3]) * shape[4] + idx[4]
Unravel(n, shape) ==
    << n \div (shape[2] * shape[3] * shape[4]),
       (n \div (shape[3] * shape[4])) % shape[2],
       (n \div shape[4]) % shape[3],
       n % shape[4] >>

\* flat.reshape(shape)
Reshape(flat, shape) == [shape |-> shape, flat |-> flat]

\* np.transpose(arr, axes): axis k of the result is axis axes[k] of arr
\* (axes counted from 0).
Transpose(arr, axes) ==
    LET shape == [k \in 1..4 |-> arr.shape[axes[k] + 1]]
        Source(idx) ==
            [d \in 1..4 |-> idx[CHOOSE k \in 1..4 : axes[k] + 1 = d]]
    IN  [shape |-> shape,
         flat |-> [n \in 1..Prod(shape) |->
                        arr.flat[Ravel(Source(Unravel(n - 1, shape)), arr.shape) + 1]]]

-----------------------------------------------------------------------------
(* yolo.py: load_pretrained_darknet.                                       *)

\* The mutant of BatchNormWeights: the vectors in the order of the file.
BatchNormWeightsFileOrder(bn_beta, bn_gamma, bn_running_mean, bn_running_variance) ==
    <<bn_beta, bn_gamma, bn_running_mean, bn_running_variance>>

\* The list handed to bn_layer.set_weights.
BatchNormWeights(bn_beta, bn_gamma, bn_running_mean, bn_running_variance) ==
    <<bn_gamma, bn_beta, bn_running_mean, bn_running_variance>>

\* The mutant of KernelWeights: the values reshaped into the Keras shape
\* without a transposition.
KernelWeightsReshaped(flat, filters, input_channels, kernel_size) ==
    Reshape(flat, <<kernel_size[1], kernel_size[2], input_channels, filters>>)

\* darnet_kernel_weights reshaped and transposed into conv2d_kernel_weights.
KernelWeights(flat, filters, input_channels, kernel_size) ==
    Transpose(Reshape(flat, <<filters, input_channels, kernel_size[1], kernel_size[2]>>),
              <<2, 3, 1, 0>>)

\* The seen counter is an int64 (8 bytes) or an int32 (4 bytes).
SeenSize(major, minor) ==
    IF major * 1 + minor >= 2 /\ major < 1000 /\ minor < 1000 THEN 8 ELSE 4

MaxBlocks == 2
MaxFileWords == 38

NetSection == [height |-> 8, width |-> 8, channels |-> 3]

ConvSection(filters, size) ==
    [filters |-> filters, size |-> size, stride |-> 1, pad |-> 1, activation |-> "leaky"]

WithBatchNormalize(section, flag) ==
    [k \in DOMAIN section \cup {"batch_normalize"} |->
        IF k = "batch_normalize" THEN flag ELSE section[k]]

\* The blocks a configuration is made of after its [net] block.
BlockChoices ==
    { <<"convolutional", WithBatchNormalize(ConvSection(2, 2), 1)>>,
      <<"convolutional", WithBatchNormalize(ConvSection(1, 1), 1)>>,
      <<"convolutional", WithBatchNormalize(ConvSection(1, 1), 0)>>,
      <<"convolutional", ConvSection(1, 1)>>,
      <<"maxpool", [size |-> 2, stride |-> 2]>>,
      <<"local", ConvSection(1, 1)>>,
      <<"connected", [output |-> 2, activation |-> "linear"]>> }

\* (major, minor, revision) of the weights file.
Headers == { <<0, 1, 0>>, <<0, 2, 0>>, <<1000, 2, 0>> }

\* The value of the file's word k after the header: each word its own.
Payload(k) == 100 + k

InitLoad ==
    /\ \E rest \in UNION {[1..n -> BlockChoices] : n \in 0..MaxBlocks} :
            load_cfg = <<<<"net", NetSection>>>> \o rest
    /\ \E header \in Headers, n \in 0..MaxFileWords, partial \in 0..3 :
            /\ wf_words = [k \in 1..n |-> IF k <= 3 THEN header[k] ELSE Payload(k)]
            /\ wf_len = 4 * n + partial
    /\ model = <<>>
    /\ wf_pos = 0
    /\ block_index = 0
    /\ load_pc = "create"
    /\ short_read = FALSE
    /\ LabelIdle
    /\ CfgIdle

\* model = create_model_from_cfg(cfg)
CreateModel ==
    /\ load_pc = "create"
    /\ IF Buildable(load_cfg)
       THEN /\ model' = create_model_from_cfg(load_cfg)
            /\ load_pc' = "header"
       ELSE /\ model' = model
            /\ load_pc' = "ValueError"
    /\ UNCHANGED <<load_cfg, wf_words, wf_len, wf_pos, block_index, short_read,
                   label_vars, cfg_vars>>

\* The header: three int32, unpacked into major, minor, revision (a
\* ValueError when fewer came back), then the seen counter, which is not
\* looked at.
ParseHeader ==
    /\ load_pc = "header"
    /\ LET got == FromFile(0, 3)
           after == FromFilePos(0, 4, 3)
       IN  IF Len(got) # 3
           THEN /\ load_pc' = "ValueError"
                /\ wf_pos' = after
                /\ short_read' = TRUE
                /\ UNCHANGED block_index
           ELSE LET size == SeenSize(got[1], got[2])
                IN  /\ load_pc' = "blocks"
                    /\ wf_pos' = FromFilePos(after, size, 1)
                    /\ short_read' = FromFileShort(after, size, 1)
                    /\ block_index' = 1
    /\ UNCHANGED <<load_cfg, model, wf_words, wf_len, label_vars, cfg_vars>>

BlockName == load_cfg[block_index + 1][1]
BlockSection == load_cfg[block_index + 1][2]

\* One turn of the weight loop on a convolutional block.
LoadConvolutional ==
    /\ load_pc = "blocks"
    /\ block_index < Len(load_cfg)
    /\ BlockName = "convolutional"
    /\ LET conv2d_layer == model[<<"conv", block_index>>]
           filters == conv2d_layer.filters
           kernel_size == conv2d_layer.kernel_size
           input_channels == conv2d_layer.input_channels
           use_bias == conv2d_layer.use_bias
           batch_normalize == BatchNormalize(BlockSection)
           \* the four batch norm vectors, read one after the other
           p1 == FromFilePos(wf_pos, 4, filters)
           p2 == FromFilePos(p1, 4, filters)
           p3 == FromFilePos(p2, 4, filters)
           p4 == FromFilePos(p3, 4, filters)
           bn_beta == FromFile(wf_pos, filters)
           bn_gamma == FromFile(p1, filters)
           bn_running_mean == FromFile(p2, filters)
           bn_running_variance == FromFile(p3, filters)
           bn_weights == BatchNormWeights(bn_beta, bn_gamma, bn_running_mean,
                                          bn_running_variance)
           bn_short == \/ FromFileShort(wf_pos, 4, filters) \/ FromFileShort(p1, 4, filters)
                       \/ FromFileShort(p2, 4, filters) \/ FromFileShort(p3, 4, filters)
           \* the kernel
           kpos == IF batch_normalize THEN p4 ELSE wf_pos
           count == filters * input_channels * kernel_size[1] * kernel_size[2]
           flat == FromFile(kpos, count)
           with_bn == IF batch_normalize
                      THEN [model EXCEPT ![<<"batchnorm", block_index>>].weights = bn_weights]
                      ELSE model
       IN  IF batch_normalize /\ \E k \in 1..4 : Len(bn_weights[k]) # filters
           THEN \* bn_layer.set_weights refuses a vector of another shape
                /\ load_pc' = "ValueError"
                /\ wf_pos' = p4
                /\ short_read' = TRUE
                /\ UNCHANGED <<model, block_index>>
           ELSE IF use_bias
           THEN \* np.formfile: numpy has no such attribute
                /\ load_pc' = "AttributeError"
                /\ wf_pos' = kpos
                /\ short_read' = (short_read \/ (batch_normalize /\ bn_short))
                /\ model' = with_bn
                /\ UNCHANGED block_index
           ELSE IF Len(flat) # count
           THEN \* reshape refuses an array of another size
                /\ load_pc' = "ValueError"
                /\ wf_pos' = FromFilePos(kpos, 4, count)
                /\ short_read' = TRUE
                /\ model' = with_bn
                /\ UNCHANGED block_index
           ELSE /\ load_pc' = "blocks"
                /\ wf_pos' = FromFilePos(kpos, 4, count)
                /\ short_read' = short_read
                /\ model' = [with_bn EXCEPT ![<<"conv", block_index>>].weights =
                                <<KernelWeights(flat, filters, input_channels, kernel_size)>>]
                /\ block_index' = block_index + 1
    /\ UNCHANGED <<load_cfg, wf_words, wf_len, label_vars, cfg_vars>>

\* elif name == 'local': pass
SkipLocal ==
    /\ load_pc = "blocks"
    /\ block_index < Len(load_cfg)
    /\ BlockName = "local"
    /\ block_index' = block_index + 1
    /\ UNCHANGED <<load_cfg, model, wf_words, wf_len, wf_pos, load_pc, short_read,
                   label_vars, cfg_vars>>

\* elif name == 'connected': pass
SkipConnected ==
    /\ load_pc = "blocks"
    /\ block_index < Len(load_cfg)
    /\ BlockName = "connected"
    /\ block_index' = block_index + 1
    /\ UNCHANGED <<load_cfg, model, wf_words, wf_len, wf_pos, load_pc, short_read,
                   label_vars, cfg_vars>>

\* A block of any other name: no branch of the loop takes it.
SkipOther ==
    /\ load_pc = "blocks"
    /\ block_index < Len(load_cfg)
    /\ BlockName \notin {"convolutional", "local", "connected"}
    /\ block_index' = block_index + 1
    /\ UNCHANGED <<load_cfg, model, wf_words, wf_len, wf_pos, load_pc, short_read,
                   label_vars, cfg_vars>>

\* The loop is over: return model.
LoadReturn ==
    /\ load_pc = "blocks"
    /\ block_index = Len(load_cfg)
    /\ load_pc' = "returned"
    /\ UNCHANGED <<load_cfg, model, wf_words, wf_len, wf_pos, block_index, short_read,
                   label_vars, cfg_vars>>

NextLoad ==
    \/ CreateModel \/ ParseHeader \/ LoadConvolutional
    \/ SkipLocal \/ SkipConnected \/ SkipOther \/ LoadReturn

SpecLoad == InitLoad /\ [][NextLoad]_vars

-----------------------------------------------------------------------------
(* Properties of load_pretrained_darknet.                                  *)

IsBlock(bi, name) == bi + 1 \in DOMAIN load_cfg /\ load_cfg[bi + 1][1] = name

\* The loop is about to handle the block at block_index.
AtBlock(name) ==
    load_pc = "blocks" /\ block_index < Len(load_cfg) /\ BlockName = name

\* The words of the file from byte position pos, n of them.
Words(pos, n) == SubSeq(wf_words, pos \div 4 + 1, pos \div 4 + n)

KernelCount(layer) ==
    layer.filters * layer.input_channels * layer.kernel_size[1] * layer.kernel_size[2]

\* C3: a convolutional block without batch normalization has its bias, a
\* vector of `filters' float32, read, then its kernel, [kernel, bias] is
\* written into its convolution layer, and the loop goes on to the next
\* block.  (Stated for a file that holds the bytes of both.)
C3_BiasThenKernel ==
    [][ (/\ AtBlock("convolutional")
         /\ ~BatchNormalize(BlockSection)
         /\ wf_pos + 4 * (model[<<"conv", block_index>>].filters
                          + KernelCount(model[<<"conv", block_index>>])) <= wf_len)
        => LET layer == model[<<"conv", block_index>>]
               bias == Words(wf_pos, layer.filters)
               flat == Words(wf_pos + 4 * layer.filters, KernelCount(layer))
           IN  /\ load_pc' = "blocks"
               /\ block_index' = block_index + 1
               /\ wf_pos' = wf_pos + 4 * (layer.filters + KernelCount(layer))
               /\ Len(model'[<<"conv", block_index>>].weights) = 2
               /\ model'[<<"conv", block_index>>].weights[1].flat
                    = KernelWeights(flat, layer.filters, layer.input_channels,
                                    layer.kernel_size).flat
               /\ model'[<<"conv", block_index>>].weights[2] = bias ]_vars

\* C4: a load in which some read asked for more bytes than the file had
\* left does not return a model.
C4_TruncatedNeverLoads ==
    load_pc = "returned" => ~short_read

\* The bytes of a batch-normalized convolutional block's section.
SectionBytes(bi) ==
    LET layer == model[<<"conv", bi>>]
    IN  4 * 4 * layer.filters + 4 * KernelCount(layer)

RECURSIVE SumSections(_)
SumSections(bi) ==
    IF bi = 0 THEN 0
    ELSE SumSections(bi - 1) + (IF IsBlock(bi, "convolutional") THEN SectionBytes(bi) ELSE 0)

HeaderBytes == 12 + SeenSize(wf_words[1], wf_words[2])

\* Every weight-bearing block of the configuration is a batch-normalized
\* convolution.
OnlyBatchNormConvolutions ==
    \A bi \in 1..(Len(load_cfg) - 1) :
        /\ ~IsBlock(bi, "local") /\ ~IsBlock(bi, "connected")
        /\ IsBlock(bi, "convolutional") => BatchNormalize(load_cfg[bi + 1][2])

\* C5: a successful load has consumed the header (12 bytes and the 4 or 8
\* bytes of the seen counter) and, block by block, each weight-bearing
\* block's section, 4*4*filters + 4*filters*input_channels*kernel_h*kernel_w
\* bytes for a batch-normalized convolution.  (Stated for the
\* configurations all of whose weight-bearing blocks are of that kind.)
C5_BytesConsumed ==
    (load_pc = "returned" /\ OnlyBatchNormConvolutions) =>
        wf_pos = HeaderBytes + SumSections(Len(load_cfg) - 1)

\* C6: on a local or connected block that has blocks after it the loader
\* moves the position past the block's section or raises
\* UnsupportedLayerError; it does not go on with the position where it was.
\* (Stated for a file that has bytes left at the block.)
C6_LocalConnectedNotPassedOver ==
    [][ (/\ AtBlock("local") \/ AtBlock("connected")
         /\ block_index + 1 < Len(load_cfg)
         /\ wf_pos < wf_len)
        => (wf_pos' > wf_pos \/ load_pc' = "UnsupportedLayerError") ]_vars

\* C9: on a batch-normalized convolutional block the four vectors of
\* `filters' float32 at the position are beta, gamma, running_mean and
\* running_variance, and the list written to the batch-norm layer of the
\* same block index is [gamma, beta, running_mean, running_variance]: the
\* second vector, the first, the third, the fourth.  No other batch-norm
\* layer is written.
C9_BatchNormReorder ==
    [][ (/\ AtBlock("convolutional")
         /\ BatchNormalize(BlockSection)
         /\ wf_pos + 4 * 4 * model[<<"conv", block_index>>].filters <= wf_len)
        => LET filters == model[<<"conv", block_index>>].filters
               vector(k) == Words(wf_pos + 4 * filters * (k - 1), filters)
           IN  /\ model'[<<"batchnorm", block_index>>].weights
                    = <<vector(2), vector(1), vector(3), vector(4)>>
               /\ \A name \in DOMAIN model :
                    (name[1] = "batchnorm" /\ name[2] # block_index)
                        => model'[name] = model[name] ]_vars

\* A batch-norm layer of two filters holds four different vectors.
C9_Witness ==
    \E name \in DOMAIN model :
        /\ name[1] = "batchnorm"
        /\ model[name].filters = 2
        /\ Len(model[name].weights) = 4
        /\ \A i, j \in 1..4 : i # j => model[name].weights[i] # model[name].weights[j]

\* The element of a 4D array at an index.
At(arr, idx) == arr.flat[Ravel(idx, arr.shape) + 1]

\* C10: the filters*input_channels*kernel_h*kernel_w float32 of a kernel
\* are taken in row-major order with the shape (filters, input_channels,
\* kernel_h, kernel_w); the tensor written to the layer has the shape
\* (kernel_h, kernel_w, input_channels, filters) and holds at [i][j][ch][f]
\* the value at the flat position ((f*input_channels + ch)*kernel_h + i)
\* *kernel_w + j of the kernel's values in the file.
C10_KernelTransposed ==
    [][ (/\ AtBlock("convolutional")
         /\ \/ load_pc' = "blocks"
            \/ /\ BatchNormalize(BlockSection)
               /\ wf_pos + SectionBytes(block_index) <= wf_len)
        => LET layer == model[<<"conv", block_index>>]
               kh == layer.kernel_size[1]
               kw == layer.kernel_size[2]
               \* the kernel follows the block's batch norm vectors or bias
               start == (wf_pos + (IF BatchNormalize(BlockSection) THEN 4 * 4 ELSE 4)
                                   * layer.filters) \div 4
               kernel == model'[<<"conv", block_index>>].weights[1]
           IN  /\ load_pc' = "blocks"
               /\ kernel.shape = <<kh, kw, layer.input_channels, layer.filters>>
               /\ Len(kernel.flat) = KernelCount(layer)
               /\ \A i \in 0..(kh - 1), j \in 0..(kw - 1),
                     ch \in 0..(layer.input_channels - 1), f \in 0..(layer.filters - 1) :
                    At(kernel, <<i, j, ch, f>>)
                        = wf_words[start + ((f * layer.input_channels + ch) * kh + i) * kw
                                         + j + 1] ]_vars

\* A kernel of more than one filter, input channel, row and column has been
\* written.
C10_Witness ==
    \E name \in DOMAIN model :
        /\ name[1] = "conv"
        /\ model[name].weights # <<>>
        /\ model[name].filters > 1
        /\ model[name].input_channels > 1
        /\ model[name].kernel_size[1] > 1

====
